---- MODULE Spec2Model ----
(***************************************************************************)
(* Inventory management system: the forecast pipeline of model.py (main)   *)
(* and the Flask handlers of app.py that the claims are about.             *)
(*                                                                         *)
(* SpecForecast : main(orders_file) and the sales_predictions handler.     *)
(* SpecOrders   : the products and orders tables under upload_orders and   *)
(*                process_orders.                                          *)
(* SpecCatalog  : add_product, upload_orders and remove_product.           *)
(* SpecNames    : the requests that write product names.                   *)
(* SpecPages    : upload_orders and GET /orders.                           *)
(* SpecUploads  : two sales_predictions requests, step by step.            *)
(***************************************************************************)
EXTENDS Integers, Sequences, FiniteSets, TLC

VARIABLES
    request,    \* the sales_predictions request being served (method, files)
    temp,       \* the scratch directory 'temp': filename -> file content
    response,   \* what sales_predictions answered, NoResponse before
    mainCall,   \* the last direct call of main: its file and its outcome
    pc,         \* "start" | "responded" | "called"
    products,   \* table products: product_id -> [name, price, stock_level]
    orders,     \* table orders: order_id -> [status, line_items]
    lastProcess, \* the process_orders call just made: the tables before it
                 \* and how it ended; NoCall after any other request
    lastRemove,  \* the remove_product call just made: its product_id and the
                 \* tables before it; NoCall after any other request
    storedAs,    \* order_id -> the status the stored order was inserted with
    page,        \* what the last GET /orders answered; NoResponse after any
                 \* request that writes the tables
    clients      \* concurrent sales_predictions requests: client -> its
                 \* file, the step it is at, its response

forecastVars == <<request, temp, response, mainCall, pc, clients>>
dbVars == <<products, orders, lastProcess, lastRemove, storedAs, page>>
vars == <<request, temp, response, mainCall, pc, products, orders, lastProcess,
          lastRemove, storedAs, page, clients>>

----------------------------------------------------------------------------
(* Bounds of the inputs *)

MaxOrders == 2          \* rows of an uploaded orders file
MaxLineItems == 3       \* line items of an uploaded orders file, all rows together

MaxOrderItems == 1      \* line items of one stored order, the mixed order apart
MaxProductId == 2       \* add_product is not taken past this product_id

ProductIds == {1, 2}
Quantities == {-1, 5, 10, 20}
FileNames == {"orders.csv"}
OrderIds == {1, 2}
Statuses == {"pending", "completed"}

----------------------------------------------------------------------------
(* Values *)

\* A line item is a JSON object: a function from its keys to values. A key
\* that is absent from the object is absent from the DOMAIN.
CompleteItems == [product_id : ProductIds, quantity : Quantities]
PartialItems == {[quantity |-> 5], [product_id |-> 1]}
Items == CompleteItems \cup PartialItems

SeqsUpTo(S, n) == UNION {[1..k -> S] : k \in 0..n}

\* The line_items cell of one row: text that json.loads rejects, or the text
\* of a JSON array of objects.
InvalidJson == [json |-> "invalid"]
ArrayCell(items) == [json |-> "array", items |-> items]
\* The shapes of a file with L line items in at most m rows: per row the
\* number of its line items, or -1 for a row whose cell is invalid JSON.
RECURSIVE Shapes(_, _)
Shapes(L, m) ==
    (IF L = 0 THEN {<<>>} ELSE {}) \cup
    (IF m = 0 THEN {}
     ELSE UNION {{<<k>> \o r : r \in Shapes(L - (IF k < 0 THEN 0 ELSE k), m - 1)} :
                    k \in -1..L})

\* the rows of shape sh over the line items flat, in order
RECURSIVE BuildRows(_, _)
BuildRows(flat, sh) ==
    IF sh = <<>> THEN <<>>
    ELSE IF Head(sh) < 0
         THEN <<InvalidJson>> \o BuildRows(flat, Tail(sh))
         ELSE <<ArrayCell(SubSeq(flat, 1, Head(sh)))>>
              \o BuildRows(SubSeq(flat, Head(sh) + 1, Len(flat)), Tail(sh))

\* the line items of a file, all rows together, and the shapes per length
ItemSeqs == SeqsUpTo(Items, MaxLineItems)
ShapesByLen == [L \in 0..MaxLineItems |-> Shapes(L, MaxOrders)]

\* A file of the file system: absent, or a CSV with or without the
\* line_items column and one cell per row.
NoFile == [kind |-> "missing"]
CsvFile(has_col, rows) == [kind |-> "csv", has_line_items |-> has_col, rows |-> rows]

----------------------------------------------------------------------------
(* model.py: main *)

Ok(v) == [exc |-> "none", value |-> v]
Raise(e) == [exc |-> e]

\* pd.read_csv(orders_file)
ReadCsv(file) ==
    IF file.kind = "missing" THEN Raise("FileNotFoundError") ELSE Ok(file)

\* orders_df['line_items'].apply(json.loads)
ParseLineItems(df) ==
    IF ~df.has_line_items THEN Raise("KeyError")
    ELSE IF \E i \in 1..Len(df.rows) : df.rows[i].json = "invalid"
         THEN Raise("JSONDecodeError")
         ELSE Ok([i \in 1..Len(df.rows) |-> df.rows[i].items])

\* faulty variant: only the first row's line items are read
Flatten_FirstRowOnly(lists) ==
    IF lists = <<>> THEN <<>> ELSE Head(lists)

\* the flat list of the line items, in row order
RECURSIVE Flatten(_)
Flatten(lists) ==
    IF lists = <<>> THEN <<>> ELSE Head(lists) \o Flatten(Tail(lists))

\* the two nested loops that fill product_data
ExtractProductData(lists) ==
    LET flat == Flatten(lists) IN
    IF \E i \in 1..Len(flat) : "product_id" \notin DOMAIN flat[i]
                               \/ "quantity" \notin DOMAIN flat[i]
    THEN Raise("KeyError")
    ELSE Ok([i \in 1..Len(flat) |->
              [product_id |-> flat[i].product_id, quantity |-> flat[i].quantity]])

RECURSIVE SortedSeq(_)
SortedSeq(S) ==
    IF S = {} THEN <<>>
    ELSE LET lo == CHOOSE x \in S : \A y \in S : x <= y
         IN <<lo>> \o SortedSeq(S \ {lo})

RECURSIVE SumSeq(_)
SumSeq(s) == IF s = <<>> THEN 0 ELSE Head(s) + SumSeq(Tail(s))

SelectQuantities(product_data, p) ==
    LET hit == SelectSeq(product_data, LAMBDA r : r.product_id = p)
    IN [i \in 1..Len(hit) |-> hit[i].quantity]

\* faulty variant: the last quantity of the group instead of the sum
GroupSum_LastOnly(product_data, p) ==
    LET qs == SelectQuantities(product_data, p) IN qs[Len(qs)]

\* 'sum' of a group
GroupSum(product_data, p) == SumSeq(SelectQuantities(product_data, p))

\* faulty variant: the number of distinct quantities (nunique) instead of the count
GroupCount_Distinct(product_data, p) ==
    LET qs == SelectQuantities(product_data, p)
    IN Cardinality({qs[i] : i \in 1..Len(qs)})

\* 'count' of a group
GroupCount(product_data, p) == Len(SelectQuantities(product_data, p))

Abs(x) == IF x < 0 THEN -x ELSE x

RECURSIVE Gcd(_, _)
Gcd(a, b) == IF b = 0 THEN a ELSE Gcd(b, a % b)

\* 'mean' of a group: sum / count. The float is kept as the exact fraction
\* in lowest terms (den > 0), so that 30/2 and 15/1 are the same value.
GroupMean(total, count) ==
    LET g == Gcd(Abs(total), count)
    IN [num |-> total \div g, den |-> count \div g]

\* the rows of the aggregate: one per key, keys ascending
GroupRows(product_data) ==
    LET keys == SortedSeq({product_data[i].product_id : i \in 1..Len(product_data)})
    IN [k \in 1..Len(keys) |->
          [product_id |-> keys[k],
           total_quantity |-> GroupSum(product_data, keys[k]),
           avg_quantity |-> GroupMean(GroupSum(product_data, keys[k]),
                                      GroupCount(product_data, keys[k])),
           order_frequency |-> GroupCount(product_data, keys[k])]]

\* faulty variant: the empty frame groups to no rows instead of raising
GroupBy_EmptyFrameOk(product_data) ==
    IF product_data = <<>> THEN Ok(<<>>) ELSE Ok(GroupRows(product_data))

\* product_df.groupby('product_id').agg({'quantity': ['sum','mean','count']})
\* .reset_index(). An empty product_data makes a frame without columns, and
\* groupby('product_id') raises KeyError.
GroupBy(product_data) ==
    IF product_data = <<>> THEN Raise("KeyError") ELSE Ok(GroupRows(product_data))

\* int(x): truncation toward zero of the fraction n/d, d > 0
IntTrunc(n, d) == IF n >= 0 THEN n \div d ELSE -((-n) \div d)

\* faulty variant: math.floor instead of int
PredictedStock_Floor(avg) == (3 * avg.num) \div (2 * avg.den)

\* int(row['avg_quantity'] * 1.5). For the totals and counts in reach the
\* float product truncates to the same integer as the exact 3*num/(2*den).
PredictedStock(avg) == IntTrunc(3 * avg.num, 2 * avg.den)

\* the loop that fills predictions: a later row with the same key overwrites
Predictions(product_sales) ==
    [p \in {product_sales[k].product_id : k \in 1..Len(product_sales)} |->
        LET k == CHOOSE j \in 1..Len(product_sales) :
                     /\ product_sales[j].product_id = p
                     /\ \A l \in 1..Len(product_sales) :
                            product_sales[l].product_id = p => l <= j
        IN [total_quantity |-> product_sales[k].total_quantity,
            avg_quantity |-> product_sales[k].avg_quantity,
            predicted_stock |-> PredictedStock(product_sales[k].avg_quantity)]]

\* the body of main's try block
Pipeline(file) ==
    LET df == ReadCsv(file) IN
    IF df.exc # "none" THEN df ELSE
    LET parsed == ParseLineItems(df.value) IN
    IF parsed.exc # "none" THEN parsed ELSE
    LET product_data == ExtractProductData(parsed.value) IN
    IF product_data.exc # "none" THEN product_data ELSE
    LET product_sales == GroupBy(product_data.value) IN
    IF product_sales.exc # "none" THEN product_sales ELSE
    Ok(Predictions(product_sales.value))

EmptyMapping == [p \in {} |-> 0]

\* faulty variant: the handler raises again
Handler_Reraise(failed) == [raised |-> failed.exc, printed |-> failed.exc, value |-> EmptyMapping]

\* except Exception as e: print, traceback, return {}
Handler(failed) == [raised |-> "none", printed |-> failed.exc, value |-> EmptyMapping]

\* main(orders_file): what the caller gets. raised is the exception that
\* leaves main, printed the one main reports ("Error in prediction: ...").
main(file) ==
    LET body == Pipeline(file) IN
    IF body.exc = "none"
    THEN [raised |-> "none", printed |-> "none", value |-> body.value]
    ELSE Handler(body)

----------------------------------------------------------------------------
(* app.py: the tables, upload_orders, process_orders *)

\* after init_database both tables are empty
InitialProducts == [p \in {} |-> 0]
InitialOrders == [o \in {} |-> 0]

\* the line items a stored order is made of: with name and price, or without
OrderItems ==
    {[product_id |-> 1, quantity |-> 2, name |-> "A", price |-> 1],
     [product_id |-> 1, quantity |-> 3],
     [product_id |-> 2, quantity |-> 2, name |-> "B", price |-> 1]}

\* an order for both products
MixedOrder ==
    <<[product_id |-> 1, quantity |-> 2, name |-> "A", price |-> 1],
      [product_id |-> 2, quantity |-> 2, name |-> "B", price |-> 1]>>

\* a row of an uploaded orders file; blank: a required field of it is empty
UploadRows ==
    [order_id : OrderIds, status : Statuses,
     line_items : {ArrayCell(s) : s \in SeqsUpTo(OrderItems, MaxOrderItems) \cup {MixedOrder}},
     blank : {FALSE}]
    \cup {[order_id |-> 1, status |-> "pending", line_items |-> InvalidJson, blank |-> FALSE],
          [order_id |-> 1, status |-> "pending", line_items |-> ArrayCell(<<>>), blank |-> TRUE]}

\* the uploaded files: no row, one row, the same row twice
UploadFiles == {<<>>} \cup {<<r>> : r \in UploadRows} \cup {<<r, r>> : r \in UploadRows}

\* one turn of upload_orders' loop: the row is skipped when a required field
\* is empty, when line_items is no JSON, or when the order_id is stored
InsertOrder(os, row) ==
    IF row.blank THEN os
    ELSE IF row.line_items.json = "invalid" THEN os
    ELSE IF row.order_id \in DOMAIN os THEN os
    ELSE [o \in DOMAIN os \cup {row.order_id} |->
            IF o = row.order_id
            THEN [status |-> row.status, line_items |-> row.line_items]
            ELSE os[o]]

RECURSIVE InsertOrders(_, _)
InsertOrders(os, rows) ==
    IF rows = <<>> THEN os ELSE InsertOrders(InsertOrder(os, Head(rows)), Tail(rows))

\* UPDATE products SET stock_level = stock_level - ? WHERE product_id = ?
DeductStock(ps, product_id, quantity) ==
    IF product_id \in DOMAIN ps
    THEN [ps EXCEPT ![product_id].stock_level = @ - quantity]
    ELSE ps

\* INSERT INTO products (product_id, name, price, stock_level)
InsertProduct(ps, product_id, row) ==
    [p \in DOMAIN ps \cup {product_id} |-> IF p = product_id THEN row ELSE ps[p]]

\* faulty variant: the new product starts at stock 0 and the quantity is lost
ProcessItem_InsertZero(ps, item) ==
    IF "product_id" \notin DOMAIN item \/ "quantity" \notin DOMAIN item
    THEN Raise("KeyError")
    ELSE LET deducted == DeductStock(ps, item.product_id, item.quantity) IN
         IF item.product_id \in DOMAIN deducted THEN Ok(deducted)
         ELSE IF "name" \notin DOMAIN item \/ "price" \notin DOMAIN item
              THEN Raise("KeyError")
              ELSE Ok(InsertProduct(deducted, item.product_id,
                                    [name |-> item.name, price |-> item.price,
                                     stock_level |-> 0]))

\* one turn of process_orders' inner loop
ProcessItem(ps, item) ==
    IF "product_id" \notin DOMAIN item \/ "quantity" \notin DOMAIN item
    THEN Raise("KeyError")
    ELSE LET deducted == DeductStock(ps, item.product_id, item.quantity) IN
         IF item.product_id \in DOMAIN deducted THEN Ok(deducted)
         ELSE IF "name" \notin DOMAIN item \/ "price" \notin DOMAIN item
              THEN Raise("KeyError")
              ELSE Ok(InsertProduct(deducted, item.product_id,
                                    [name |-> item.name, price |-> item.price,
                                     stock_level |-> -item.quantity]))

\* an exception that leaves a with block after statements were executed on
\* its connection: written is what those statements wrote
RaiseAfter(e, written) == [exc |-> e, written |-> written]

RECURSIVE ProcessItems(_, _)
ProcessItems(ps, items) ==
    IF items = <<>> THEN Ok(ps)
    ELSE LET r == ProcessItem(ps, Head(items))
         IN IF r.exc # "none" THEN RaiseAfter(r.exc, ps)
            ELSE ProcessItems(r.value, Tail(items))

\* UPDATE orders SET status = 'completed' WHERE order_id = ?
MarkCompleted(os, order_id) == [os EXCEPT ![order_id].status = "completed"]

\* faulty variant: the completed orders are fetched too
PendingOrders_All(os) == SortedSeq(DOMAIN os)

\* SELECT * FROM orders WHERE status != 'completed', in order_id order
PendingOrders(os) == SortedSeq({o \in DOMAIN os : os[o].status # "completed"})

\* process_orders' outer loop over the fetched orders: an order whose
\* line_items is no JSON is skipped and stays as it is
RECURSIVE ProcessPending(_, _)
ProcessPending(db, ids) ==
    IF ids = <<>> THEN Ok(db)
    ELSE LET cell == db.orders[Head(ids)].line_items IN
         IF cell.json = "invalid" THEN ProcessPending(db, Tail(ids))
         ELSE LET r == ProcessItems(db.products, cell.items) IN
              IF r.exc # "none"
              THEN RaiseAfter(r.exc, [products |-> r.written, orders |-> db.orders])
              ELSE ProcessPending([products |-> r.value,
                                   orders |-> MarkCompleted(db.orders, Head(ids))],
                                  Tail(ids))

\* faulty variant: every statement is committed as it is executed
Persisted_Autocommit(before, r) == IF r.exc = "none" THEN r.value ELSE r.written

\* the tables once the with block of get_db_connection is left: conn.commit()
\* is the last statement of the block, and a connection closed before it
\* drops what the call wrote
Persisted(before, r) == IF r.exc = "none" THEN r.value ELSE before

----------------------------------------------------------------------------
(* app.py: add_product, remove_product *)

\* a form field as the handler reads it: absent or empty, text that int()
\* and float() reject, or the text of a number
Blank == [kind |-> "blank"]
NotANumber == [kind |-> "text"]
Num(v) == [kind |-> "number", value |-> v]

Names == {"A", "B"}

AddForms ==
    {[product_name |-> n, price |-> Num(1), stock_level |-> Num(5)] : n \in Names}
    \cup {[product_name |-> "", price |-> Num(1), stock_level |-> Num(5)],
          [product_name |-> "A", price |-> NotANumber, stock_level |-> Num(5)],
          [product_name |-> "A", price |-> Num(1), stock_level |-> Blank]}

\* the rowid sqlite gives an INTEGER PRIMARY KEY that is not supplied
RECURSIVE MaxOf(_)
MaxOf(S) ==
    IF S = {} THEN 0
    ELSE LET x == CHOOSE y \in S : TRUE
             m == MaxOf(S \ {x})
         IN IF x > m THEN x ELSE m
NextRowId(ps) == MaxOf(DOMAIN ps) + 1

\* add_product: the products table after the request
AddProductTo(ps, form) ==
    IF form.product_name = "" \/ form.price.kind = "blank" \/ form.stock_level.kind = "blank"
    THEN ps
    ELSE IF form.price.kind # "number" \/ form.stock_level.kind # "number" THEN ps
    ELSE IF \E p \in DOMAIN ps : ps[p].name = form.product_name THEN ps
    ELSE InsertProduct(ps, NextRowId(ps),
                       [name |-> form.product_name, price |-> form.price.value,
                        stock_level |-> form.stock_level.value])

\* faulty variant: only the first line item is looked at
OrderMentions_FirstItemOnly(cell, product_id) ==
    /\ cell.items # <<>>
    /\ "product_id" \in DOMAIN cell.items[1]
    /\ cell.items[1].product_id = product_id

\* any(item.get('product_id') == product_id for item in items)
OrderMentions(cell, product_id) ==
    \E j \in 1..Len(cell.items) :
        /\ "product_id" \in DOMAIN cell.items[j]
        /\ cell.items[j].product_id = product_id

\* remove_product's loop over all orders: an order is deleted when one of
\* its line items has the product_id; an order whose line_items is no JSON
\* raises inside the try and is kept
OrdersToDelete(os, product_id) ==
    {o \in DOMAIN os :
        /\ os[o].line_items.json = "array"
        /\ OrderMentions(os[o].line_items, product_id)}

Restrict(f, S) == [x \in S |-> f[x]]

RemoveForms == {Blank, NotANumber} \cup {Num(p) : p \in 1..MaxProductId}

\* does remove_product get past its checks
RemoveFinds(ps, form) == form.kind = "number" /\ form.value \in DOMAIN ps

----------------------------------------------------------------------------
(* app.py: update_product, upload_inventory *)

UpdateForms ==
    {[product_id |-> Num(p), product_name |-> n, price |-> Num(1), stock_level |-> Num(5)] :
        p \in 1..MaxProductId, n \in Names}
    \cup {[product_id |-> Blank, product_name |-> "A", price |-> Num(1), stock_level |-> Num(5)],
          [product_id |-> NotANumber, product_name |-> "A", price |-> Num(1),
           stock_level |-> Num(5)],
          [product_id |-> Num(1), product_name |-> "", price |-> Num(1), stock_level |-> Num(5)]}

\* update_product: the products table after the request; the new name is
\* written as it comes, no row is looked up by name
UpdateProductIn(ps, form) ==
    IF \/ form.product_id.kind = "blank" \/ form.product_name = ""
       \/ form.price.kind = "blank" \/ form.stock_level.kind = "blank"
    THEN ps
    ELSE IF \/ form.product_id.kind # "number" \/ form.price.kind # "number"
            \/ form.stock_level.kind # "number"
    THEN ps
    ELSE IF form.product_id.value \notin DOMAIN ps THEN ps
    ELSE [ps EXCEPT ![form.product_id.value] =
                       [name |-> form.product_name, price |-> form.price.value,
                        stock_level |-> form.stock_level.value]]

MaxInventoryRows == 2   \* rows of an uploaded inventory file

InventoryRows == [productid : 1..MaxProductId, productname : Names, price : {1}, stock : {5}]

\* an uploaded inventory file: has it the required columns, and its rows
InventoryFiles ==
    {[columns |-> TRUE, rows |-> rows] : rows \in SeqsUpTo(InventoryRows, MaxInventoryRows)}
    \cup {[columns |-> FALSE, rows |-> <<>>]}

\* the INSERT loop of upload_inventory; product_id is the primary key, a
\* second row with the same productid raises
RECURSIVE InsertInventory(_, _)
InsertInventory(ps, rows) ==
    IF rows = <<>> THEN Ok(ps)
    ELSE LET row == Head(rows) IN
         IF row.productid \in DOMAIN ps THEN Raise("IntegrityError")
         ELSE InsertInventory(InsertProduct(ps, row.productid,
                                            [name |-> row.productname, price |-> row.price,
                                             stock_level |-> row.stock]),
                              Tail(rows))

\* upload_inventory: DELETE FROM products, then the rows of the file; what
\* is not committed is rolled back
UploadInventoryTo(ps, file) ==
    IF ~file.columns THEN ps
    ELSE LET r == InsertInventory(InitialProducts, file.rows)
         IN IF r.exc = "none" THEN r.value ELSE ps

----------------------------------------------------------------------------
(* app.py: orders_page *)

\* the connection once the with block of get_db_connection is left: the
\* finally clause has closed it
AfterWith == "closed"

\* cursor.execute and fetchall on a connection in state conn: the rows of
\* orders in order_id order, or the error sqlite3 raises on a closed one
SelectOrders(conn, os) ==
    IF conn = "closed" THEN Raise("ProgrammingError")
    ELSE Ok(SortedSeq(DOMAIN os))

\* the dict appended to order_table for one row
OrderEntry(os, o) ==
    [order_id |-> o, status |-> os[o].status,
     line_items |-> IF os[o].line_items.json = "array" THEN os[o].line_items.items ELSE <<>>]

RenderOrders(order_table) ==
    [kind |-> "render", template |-> "orders.html", order_table |-> order_table]
ServerError == [kind |-> "error", code |-> 500]

\* the loop over order_data: render_template is returned from inside it, in
\* its first turn; with no row the view returns None, which Flask answers
\* with a server error
OrdersLoop(os, ids) ==
    IF ids = <<>> THEN ServerError
    ELSE RenderOrders(<<OrderEntry(os, Head(ids))>>)

\* orders_page: the response to GET /orders
OrdersPageResponse(os) ==
    LET r == SelectOrders(AfterWith, os) IN
    IF r.exc # "none" THEN ServerError ELSE OrdersLoop(os, r.value)

----------------------------------------------------------------------------
(* app.py: sales_predictions *)

NoResponse == [kind |-> "none"]
Render(predictions) ==
    [kind |-> "render", template |-> "sales_predictions.html",
     predictions |-> predictions, flash |-> "none"]
RenderBlank ==
    [kind |-> "render", template |-> "sales_predictions.html", flash |-> "none"]
Redirect(msg) == [kind |-> "redirect", flash |-> msg]

\* the try/except around main(file_path) and the render
ForecastResponse(out) ==
    IF out.raised = "none"
    THEN Render(out.value)
    ELSE Redirect("Prediction error")

NoCall == [called |-> FALSE]
Clients == {"a", "b"}
NoClient == [step |-> "idle"]
Call(file) == [called |-> TRUE, file |-> file, out |-> main(file)]
NoRequest == [method |-> "none"]

Init ==
    /\ request = NoRequest
    /\ temp = [n \in FileNames |-> NoFile]
    /\ response = NoResponse
    /\ mainCall = NoCall
    /\ pc = "start"
    /\ products = InitialProducts
    /\ orders = InitialOrders
    /\ lastProcess = NoCall
    /\ lastRemove = NoCall
    /\ storedAs = InitialOrders
    /\ page = NoResponse
    /\ clients = [c \in Clients |-> NoClient]

\* GET /sales_predictions
SalesPredictionsGet ==
    /\ pc = "start"
    /\ request' = [method |-> "GET"]
    /\ response' = RenderBlank
    /\ pc' = "responded"
    /\ UNCHANGED <<temp, mainCall, clients, dbVars>>

\* POST /sales_predictions without the order_file part
SalesPredictionsNoFile ==
    /\ pc = "start"
    /\ request' = [method |-> "POST", has_file |-> FALSE]
    /\ response' = Redirect("No file uploaded")
    /\ pc' = "responded"
    /\ UNCHANGED <<temp, mainCall, clients, dbVars>>

\* POST /sales_predictions with an empty filename
SalesPredictionsNoName ==
    /\ pc = "start"
    /\ \E f \in {CsvFile(FALSE, <<>>)} :
          request' = [method |-> "POST", has_file |-> TRUE, filename |-> "", content |-> f]
    /\ response' = Redirect("No selected file")
    /\ pc' = "responded"
    /\ UNCHANGED <<temp, mainCall, clients, dbVars>>

\* POST /sales_predictions with a file: save it under temp/<filename>, call
\* main on that path, render what main returned
SalesPredictionsPost ==
    /\ pc = "start"
    /\ \E n \in FileNames, flat \in ItemSeqs, has_col \in BOOLEAN :
          \E sh \in ShapesByLen[Len(flat)] :
             /\ has_col \/ (flat = <<>> /\ sh = <<>>)
             /\ LET f == CsvFile(has_col, BuildRows(flat, sh)) IN
                /\ request' = [method |-> "POST", has_file |-> TRUE,
                                filename |-> n, content |-> f]
                /\ temp' = [temp EXCEPT ![n] = f]
                /\ mainCall' = Call(temp'[n])
                /\ response' = ForecastResponse(mainCall'.out)
    /\ pc' = "responded"
    /\ UNCHANGED <<clients, dbVars>>

\* a direct call main(orders_file) on a path of the scratch directory
CallMain ==
    /\ pc = "start"
    /\ \E n \in FileNames : mainCall' = Call(temp[n])
    /\ pc' = "called"
    /\ UNCHANGED <<request, temp, response, clients, dbVars>>

NextForecast ==
    \/ SalesPredictionsGet
    \/ SalesPredictionsNoFile
    \/ SalesPredictionsNoName
    \/ SalesPredictionsPost
    \/ CallMain

SpecForecast == Init /\ [][NextForecast]_vars

----------------------------------------------------------------------------
(* app.py: the requests that change the tables *)

\* POST /upload_orders with a CSV file that has the required columns: every
\* row that passes the checks is inserted, then the connection commits
UploadOrders ==
    /\ \E rows \in UploadFiles :
          orders' = InsertOrders(orders, rows)
    /\ storedAs' = [o \in DOMAIN orders' |->
                       IF o \in DOMAIN orders THEN storedAs[o] ELSE orders'[o].status]
    /\ lastProcess' = NoCall
    /\ lastRemove' = NoCall
    /\ page' = NoResponse
    /\ UNCHANGED <<products, forecastVars>>

\* POST /process_orders: the whole loop, then conn.commit(). An exception
\* leaves the with block before the commit, and closing the connection drops
\* what the call wrote.
ProcessOrders ==
    LET r == ProcessPending([products |-> products, orders |-> orders],
                            PendingOrders(orders))
        after == Persisted([products |-> products, orders |-> orders], r)
    IN /\ products' = after.products
       /\ orders' = after.orders
       /\ lastProcess' = [called |-> TRUE, products |-> products, orders |-> orders,
                          raised |-> r.exc]
       /\ lastRemove' = NoCall
       /\ page' = NoResponse
       /\ UNCHANGED <<storedAs, forecastVars>>

NextOrders ==
    \/ UploadOrders
    \/ ProcessOrders

SpecOrders == Init /\ [][NextOrders]_vars

----------------------------------------------------------------------------
(* app.py: the requests on the catalog *)

\* POST /add_product
AddProduct ==
    /\ \E form \in AddForms :
          /\ NextRowId(products) <= MaxProductId
          /\ products' = AddProductTo(products, form)
    /\ lastProcess' = NoCall
    /\ lastRemove' = NoCall
    /\ page' = NoResponse
    /\ UNCHANGED <<orders, storedAs, forecastVars>>

\* POST /remove_product
RemoveProduct ==
    /\ \E form \in RemoveForms :
          /\ IF RemoveFinds(products, form)
             THEN /\ products' = Restrict(products, DOMAIN products \ {form.value})
                  /\ orders' = Restrict(orders,
                                        DOMAIN orders \ OrdersToDelete(orders, form.value))
             ELSE UNCHANGED <<products, orders>>
          /\ lastRemove' = [called |-> TRUE, form |-> form,
                            found |-> RemoveFinds(products, form),
                            products |-> products, orders |-> orders]
    /\ storedAs' = Restrict(storedAs, DOMAIN orders')
    /\ lastProcess' = NoCall
    /\ page' = NoResponse
    /\ UNCHANGED forecastVars

NextCatalog ==
    \/ AddProduct
    \/ UploadOrders
    \/ RemoveProduct

SpecCatalog == Init /\ [][NextCatalog]_vars

----------------------------------------------------------------------------
(* app.py: the requests that write product names *)

UpdateProduct ==
    /\ \E form \in UpdateForms : products' = UpdateProductIn(products, form)
    /\ lastProcess' = NoCall
    /\ lastRemove' = NoCall
    /\ page' = NoResponse
    /\ UNCHANGED <<orders, storedAs, forecastVars>>

UploadInventory ==
    /\ \E file \in InventoryFiles : products' = UploadInventoryTo(products, file)
    /\ lastProcess' = NoCall
    /\ lastRemove' = NoCall
    /\ page' = NoResponse
    /\ UNCHANGED <<orders, storedAs, forecastVars>>

NextNames ==
    \/ AddProduct
    \/ UpdateProduct
    \/ UploadInventory
    \/ UploadOrders
    \/ ProcessOrders

SpecNames == Init /\ [][NextNames]_vars

----------------------------------------------------------------------------
(* app.py: GET /orders *)

OrdersPage ==
    /\ page' = OrdersPageResponse(orders)
    /\ lastProcess' = NoCall
    /\ lastRemove' = NoCall
    /\ UNCHANGED <<products, orders, storedAs, forecastVars>>

NextPages ==
    \/ UploadOrders
    \/ OrdersPage

SpecPages == Init /\ [][NextPages]_vars

----------------------------------------------------------------------------
(* app.py: two POST /sales_predictions requests, step by step *)

UploadNames == {"orders.csv", "other.csv"}
UploadContents ==
    {CsvFile(TRUE, <<ArrayCell(<<it>>)>>) : it \in [product_id : ProductIds, quantity : {5, 10}]}

\* faulty variant: a path of the request's own
ScratchPath_PerRequest(c, filename) == c

\* os.path.join('temp', file.filename): the request plays no part in it
ScratchPath(c, filename) == filename

\* the requests that have saved their file
Saved == {d \in Clients : clients[d].step # "idle"}

\* file.save(file_path) of request c
Save(c) ==
    /\ clients[c].step = "idle"
    /\ \E n \in UploadNames, content \in UploadContents :
          /\ temp' = (ScratchPath(c, n) :> content) @@ temp
          /\ clients' = [clients EXCEPT ![c] =
                            [step |-> "saved", filename |-> n, content |-> content,
                             nth |-> Cardinality(Saved)]]
    /\ UNCHANGED <<request, response, mainCall, pc, dbVars>>

\* main(file_path) and render_template of request c
Forecast(c) ==
    /\ clients[c].step = "saved"
    /\ LET call == Call(temp[ScratchPath(c, clients[c].filename)]) IN
       clients' = [clients EXCEPT ![c] =
                      [step |-> "done", filename |-> clients[c].filename,
                       content |-> clients[c].content, nth |-> clients[c].nth,
                       savedBy |-> Saved, read |-> call.file,
                       response |-> ForecastResponse(call.out)]]
    /\ UNCHANGED <<request, temp, response, mainCall, pc, dbVars>>

NextUploads ==
    \/ \E c \in Clients : Save(c)
    \/ \E c \in Clients : Forecast(c)

SpecUploads == Init /\ [][NextUploads]_vars

----------------------------------------------------------------------------
(* Reading a file directly, without the pipeline *)

HasTable(file) == file.kind = "csv" /\ file.has_line_items

\* every row decodes to an array
AllDecode(file) == \A i \in 1..Len(file.rows) : file.rows[i].json = "array"

CellLen(c) == IF c.json = "array" THEN Len(c.items) ELSE 0

\* the places <<row, index>> of the line items of the rows that decode
Places(file) ==
    UNION {{<<i, j>> : j \in 1..CellLen(file.rows[i])} : i \in 1..Len(file.rows)}

ItemAt(file, pl) == file.rows[pl[1]].items[pl[2]]

IsComplete(item) == {"product_id", "quantity"} \subseteq DOMAIN item

\* a valid dataset: every line_items is an array of objects that have
\* product_id and quantity
Valid(file) ==
    /\ HasTable(file)
    /\ AllDecode(file)
    /\ \A pl \in Places(file) : IsComplete(ItemAt(file, pl))

PlacesOf(file, p) == {pl \in Places(file) : ItemAt(file, pl).product_id = p}

RECURSIVE QuantityOver(_, _)
QuantityOver(file, S) ==
    IF S = {} THEN 0
    ELSE LET pl == CHOOSE x \in S : TRUE
         IN ItemAt(file, pl).quantity + QuantityOver(file, S \ {pl})

\* the file without the rows in drop
WithoutRows(file, drop) ==
    LET keep == SortedSeq((1..Len(file.rows)) \ drop)
    IN CsvFile(file.has_line_items, [k \in 1..Len(keep) |-> file.rows[keep[k]]])

\* the file without the line items that lack a required field
WithoutPartialItems(file) ==
    CsvFile(file.has_line_items,
            [i \in 1..Len(file.rows) |->
                ArrayCell(SelectSeq(file.rows[i].items, IsComplete))])

ExampleFile ==
    CsvFile(TRUE, <<ArrayCell(<<[product_id |-> 1, quantity |-> 10]>>),
                    ArrayCell(<<[product_id |-> 1, quantity |-> 20],
                                [product_id |-> 2, quantity |-> 5]>>)>>)

----------------------------------------------------------------------------
(* Claims about main *)

\* C1: for a valid dataset the keys of the mapping main returns are exactly
\* the product_ids that occur in a line item of some order.
C1_KeysAreOrderedProducts ==
    (mainCall.called /\ Valid(mainCall.file)) =>
        /\ mainCall.out.raised = "none"
        /\ DOMAIN mainCall.out.value =
              {ItemAt(mainCall.file, pl).product_id : pl \in Places(mainCall.file)}

C1_Witness ==
    /\ mainCall.called
    /\ Valid(mainCall.file)
    /\ Len(mainCall.file.rows) = 2
    /\ PlacesOf(mainCall.file, 1) = {<<1, 1>>}
    /\ PlacesOf(mainCall.file, 2) = {<<2, 1>>, <<2, 2>>}
    /\ DOMAIN mainCall.out.value = {1, 2}

\* C2: for a valid dataset, total_quantity of every product in the mapping is
\* the sum of the quantities of all its line items across all orders.
C2_TotalIsSum ==
    (mainCall.called /\ Valid(mainCall.file)) =>
        \A p \in DOMAIN mainCall.out.value :
            mainCall.out.value[p].total_quantity =
                QuantityOver(mainCall.file, PlacesOf(mainCall.file, p))

C2_Witness ==
    /\ mainCall.called
    /\ Valid(mainCall.file)
    /\ PlacesOf(mainCall.file, 1) = {<<1, 1>>, <<2, 1>>}
    /\ 1 \in DOMAIN mainCall.out.value
    /\ mainCall.out.value[1].total_quantity = 30

ExampleHolds ==
    (mainCall.called /\ mainCall.file = ExampleFile) =>
        /\ DOMAIN mainCall.out.value = {1, 2}
        /\ mainCall.out.value[1].predicted_stock = 22
        /\ mainCall.out.value[2].predicted_stock = 7

\* C4 as stated: for a valid dataset with integer quantities predicted_stock
\* is floor(3 * total_quantity / (2 * number of line items)), and the
\* two-order example gives 22 and 7.
C4_Original_Floor ==
    /\ (mainCall.called /\ Valid(mainCall.file)) =>
          \A p \in DOMAIN mainCall.out.value :
              mainCall.out.value[p].predicted_stock =
                  (3 * QuantityOver(mainCall.file, PlacesOf(mainCall.file, p)))
                      \div (2 * Cardinality(PlacesOf(mainCall.file, p)))
    /\ ExampleHolds

\* C4 amended: predicted_stock is 3 * total_quantity / (2 * number of line
\* items) truncated toward zero, which is the floor when total_quantity >= 0
\* and the ceiling when it is negative; the example gives 22 and 7.
C4_TruncatesTowardZero ==
    /\ (mainCall.called /\ Valid(mainCall.file)) =>
          \A p \in DOMAIN mainCall.out.value :
              LET t == QuantityOver(mainCall.file, PlacesOf(mainCall.file, p))
                  n == Cardinality(PlacesOf(mainCall.file, p))
                  got == mainCall.out.value[p].predicted_stock
              IN IF t >= 0
                 THEN got = (3 * t) \div (2 * n)
                 ELSE got = -((3 * (-t)) \div (2 * n))
    /\ ExampleHolds

C4_Witness ==
    /\ mainCall.called
    /\ mainCall.file = ExampleFile
    /\ mainCall.out.value[1] =
          [total_quantity |-> 30, avg_quantity |-> [num |-> 15, den |-> 1],
           predicted_stock |-> 22]
    /\ mainCall.out.value[2] =
          [total_quantity |-> 5, avg_quantity |-> [num |-> 5, den |-> 1],
           predicted_stock |-> 7]

\* the failures the pipeline can meet
ListedFailure(file) ==
    \/ file.kind = "missing"
    \/ ~file.has_line_items
    \/ ~AllDecode(file)
    \/ \E pl \in Places(file) : ~IsComplete(ItemAt(file, pl))

\* C5: whatever fails inside the pipeline, main lets no exception out and
\* returns the empty mapping.
C5_FailureReturnsEmpty ==
    (mainCall.called
        /\ (ListedFailure(mainCall.file) \/ Pipeline(mainCall.file).exc # "none")) =>
        /\ mainCall.out.raised = "none"
        /\ DOMAIN mainCall.out.value = {}

C5_Witness ==
    /\ mainCall.called
    /\ HasTable(mainCall.file)
    /\ AllDecode(mainCall.file)
    /\ \E pl \in Places(mainCall.file) : ~IsComplete(ItemAt(mainCall.file, pl))
    /\ \E pl \in Places(mainCall.file) : IsComplete(ItemAt(mainCall.file, pl))
    /\ mainCall.out.printed = "KeyError"
    /\ mainCall.out.raised = "none"
    /\ DOMAIN mainCall.out.value = {}

\* C6: with exactly one order of invalid JSON and all others valid, main
\* returns what it returns for the dataset without that order.
C6_BadOrderSkipped ==
    (mainCall.called /\ HasTable(mainCall.file)) =>
        \A i \in 1..Len(mainCall.file.rows) :
            (/\ mainCall.file.rows[i].json = "invalid"
             /\ Valid(WithoutRows(mainCall.file, {i})))
            => mainCall.out.value = main(WithoutRows(mainCall.file, {i})).value

\* C7: a line item without a required field is skipped, and main returns the
\* aggregates of all other line items.
C7_PartialItemSkipped ==
    (mainCall.called /\ HasTable(mainCall.file) /\ AllDecode(mainCall.file)
        /\ \E pl \in Places(mainCall.file) : ~IsComplete(ItemAt(mainCall.file, pl)))
    => mainCall.out.value = main(WithoutPartialItems(mainCall.file)).value

ZeroOrders(file) == HasTable(file) /\ file.rows = <<>>

\* C8 as stated: a dataset with the columns and zero orders gives the empty
\* mapping as a normal result, no exception inside the pipeline, no error
\* reported.
C8_Original_NoErrorPath ==
    (mainCall.called /\ ZeroOrders(mainCall.file)) =>
        /\ mainCall.out.raised = "none"
        /\ DOMAIN mainCall.out.value = {}
        /\ mainCall.out.printed = "none"

\* C8 amended: a dataset with the columns and zero orders gives the empty
\* mapping and no exception leaves main, but through the error path: the
\* group-by of the empty frame raises KeyError, which main reports.
C8_EmptyThroughErrorPath ==
    (mainCall.called /\ ZeroOrders(mainCall.file)) =>
        /\ mainCall.out.raised = "none"
        /\ DOMAIN mainCall.out.value = {}
        /\ mainCall.out.printed = "KeyError"

C8_Witness ==
    /\ mainCall.called
    /\ ZeroOrders(mainCall.file)
    /\ DOMAIN mainCall.out.value = {}
    /\ mainCall.out.printed = "KeyError"

\* C9: when the pipeline fails during a sales_predictions POST, the response
\* carries a failure status or message and is not the predictions page with
\* an empty prediction set.
C9_FailureIsDistinct ==
    (/\ pc = "responded"
     /\ mainCall.called
     /\ Pipeline(mainCall.file).exc # "none")
    => /\ response # Render(EmptyMapping)
       /\ (response.kind # "render" \/ response.flash # "none")

----------------------------------------------------------------------------
(* Claims about process_orders *)

\* the places <<order_id, index>> of the line items the call went through:
\* those of the orders that were not completed and whose line_items decode
BatchPlaces ==
    UNION {{<<o, j>> : j \in 1..CellLen(lastProcess.orders[o].line_items)} :
              o \in {x \in DOMAIN lastProcess.orders :
                        lastProcess.orders[x].status # "completed"}}

BatchItem(pl) == lastProcess.orders[pl[1]].line_items.items[pl[2]]

BatchPlacesOf(p) == {pl \in BatchPlaces : BatchItem(pl).product_id = p}

RECURSIVE BatchQuantity(_)
BatchQuantity(S) ==
    IF S = {} THEN 0
    ELSE LET pl == CHOOSE x \in S : TRUE
         IN BatchItem(pl).quantity + BatchQuantity(S \ {pl})

\* a line item for a product_id that matched no row of products when the
\* call began, and that carries name and price
CreatesProduct(pl) ==
    /\ BatchItem(pl).product_id \notin DOMAIN lastProcess.products
    /\ {"name", "price"} \subseteq DOMAIN BatchItem(pl)

StockIsMinusBatch(p) ==
    /\ p \in DOMAIN products
    /\ products[p].stock_level = -BatchQuantity(BatchPlacesOf(p))

----------------------------------------------------------------------------
(* Claims about remove_product *)

\* C11: after a successful remove_product(p) on an existing product p, p is
\* absent from products, no remaining order has a line item whose product_id
\* is p, and every order that had no line item referencing p is still
\* present and unchanged.
C11_RemoveCascades ==
    (lastRemove.called /\ lastRemove.found) =>
        LET p == lastRemove.form.value
            Refers(row) == /\ row.line_items.json = "array"
                           /\ \E j \in 1..Len(row.line_items.items) :
                                 row.line_items.items[j].product_id = p
        IN /\ p \notin DOMAIN products
           /\ \A o \in DOMAIN orders : ~Refers(orders[o])
           /\ \A o \in DOMAIN lastRemove.orders :
                 ~Refers(lastRemove.orders[o]) =>
                     (o \in DOMAIN orders /\ orders[o] = lastRemove.orders[o])

C11_Witness ==
    /\ lastRemove.called
    /\ lastRemove.found
    /\ lastRemove.form.value = 2
    /\ DOMAIN lastRemove.orders = {1, 2}
    /\ lastRemove.orders[1].line_items.json = "array"
    /\ Len(lastRemove.orders[1].line_items.items) = 2
    /\ lastRemove.orders[1].line_items.items[1].product_id = 1
    /\ lastRemove.orders[1].line_items.items[2].product_id = 2
    /\ DOMAIN orders = {2}
    /\ orders[2] = lastRemove.orders[2]
    /\ orders[2].line_items.json = "array"
    /\ orders[2].line_items.items # <<>>
    /\ DOMAIN products = {1}

----------------------------------------------------------------------------
(* Claims about product names *)

\* C12: product names are unique: in every state reachable by add_product,
\* update_product, upload_inventory and process_orders calls, no two rows of
\* products have the same name.
C12_NamesUnique ==
    \A p, q \in DOMAIN products : p # q => products[p].name # products[q].name

----------------------------------------------------------------------------
(* Claims about orders_page *)

\* one entry per stored order, in order_id order
AllEntries(os) ==
    LET ids == SortedSeq(DOMAIN os) IN [i \in 1..Len(ids) |-> OrderEntry(os, ids[i])]

\* C13: a GET of orders_page responds with the rendered orders page listing
\* every order of the orders table, one entry per order with its status and
\* line items (an order whose line_items does not parse has an empty item
\* list), for zero, one and several stored orders.
C13_ListsEveryOrder ==
    page # NoResponse => page = RenderOrders(AllEntries(orders))

----------------------------------------------------------------------------
(* Claims about sequences of upload_orders and process_orders *)

\* the orders that were stored with a status other than 'completed' and are
\* completed now
Deducted == {o \in DOMAIN orders : storedAs[o] # "completed" /\ orders[o].status = "completed"}

\* the line items of product p in the orders of S
ItemsOf(S, p) ==
    UNION {{<<o, j>> : j \in {k \in 1..CellLen(orders[o].line_items) :
                                orders[o].line_items.items[k].product_id = p}} : o \in S}

RECURSIVE QuantityOf(_)
QuantityOf(S) ==
    IF S = {} THEN 0
    ELSE LET pl == CHOOSE x \in S : TRUE
         IN orders[pl[1]].line_items.items[pl[2]].quantity + QuantityOf(S \ {pl})

\* every stock_level is minus the quantities of the line items of the orders
\* in Deducted, each counted once; no other line item is counted
StockAccounts ==
    \A p \in ProductIds :
        IF p \in DOMAIN products
        THEN products[p].stock_level = -QuantityOf(ItemsOf(Deducted, p))
        ELSE ItemsOf(Deducted, p) = {}

\* one step: no order is lost or leaves 'completed'; a process_orders call
\* that returns without raising leaves every order completed; a
\* process_orders call that follows another with no request in between
\* changes neither table
ProcessedOnceStep ==
    /\ \A o \in DOMAIN orders :
          /\ o \in DOMAIN orders'
          /\ orders[o].status = "completed" => orders'[o].status = "completed"
    /\ (lastProcess'.called /\ lastProcess'.raised = "none")
          => \A o \in DOMAIN orders' : orders'[o].status = "completed"
    /\ (lastProcess.called /\ lastProcess'.called)
          => (products' = products /\ orders' = orders)

\* C14: under any sequence of upload_orders and process_orders calls, the
\* line items of each stored order are deducted from product stock exactly
\* once if the order was stored with a status other than 'completed' and a
\* process_orders call has committed since, and never otherwise; a
\* process_orders call that follows another with no new orders in between
\* leaves every stock_level and every order status unchanged, and an order
\* once 'completed' never becomes non-completed again.
C14_DeductedExactlyOnce == []StockAccounts /\ [][ProcessedOnceStep]_vars

C14_Witness ==
    /\ lastProcess.called
    /\ lastProcess.raised = "none"
    /\ DOMAIN lastProcess.orders = {1, 2}
    /\ \A o \in DOMAIN lastProcess.orders : lastProcess.orders[o].status = "completed"
    /\ storedAs[1] = "pending"
    /\ storedAs[2] = "completed"
    /\ ItemsOf({1}, 1) # {}
    /\ ItemsOf({2}, 1) # {}
    /\ products[1].stock_level = -QuantityOf(ItemsOf({1}, 1))

\* C15: process_orders is all-or-nothing: if the call raises part-way
\* through the batch, none of the stock deductions, product insertions or
\* status changes made earlier in that call are persisted, and the products
\* and orders tables are the same as before the call.
C15_AllOrNothing ==
    (lastProcess.called /\ lastProcess.raised # "none") =>
        /\ products = lastProcess.products
        /\ orders = lastProcess.orders

\* the call raised on order 2 after order 1 had inserted product 2 and had
\* been marked completed
C15_Witness ==
    /\ lastProcess.called
    /\ lastProcess.raised = "KeyError"
    /\ DOMAIN lastProcess.orders = {1, 2}
    /\ lastProcess.orders[1].status = "pending"
    /\ lastProcess.orders[2].status = "pending"
    /\ CellLen(lastProcess.orders[1].line_items) = 1
    /\ lastProcess.orders[1].line_items.items[1].product_id = 2
    /\ CellLen(lastProcess.orders[2].line_items) = 1
    /\ "name" \notin DOMAIN lastProcess.orders[2].line_items.items[1]
    /\ DOMAIN lastProcess.products = {}
    /\ DOMAIN products = {}
    /\ orders[1].status = "pending"

----------------------------------------------------------------------------
(* Claims about the scratch directory *)

\* requests A and B went save(A), save(B), forecast(A), with different
\* contents under one filename
Collided(A, B) ==
    /\ A # B
    /\ clients[A].step = "done"
    /\ B \in clients[A].savedBy
    /\ clients[A].nth < clients[B].nth
    /\ clients[A].filename = clients[B].filename
    /\ clients[A].content # clients[B].content

\* C16: the scratch path is derived from the incoming filename only: when
\* two sales_predictions POST requests upload different contents under the
\* same filename and interleave as save(A), save(B), forecast(A), the
\* forecast returned to A is computed from B's content, not from its own.
C16_ForecastOfOtherUpload ==
    \A A, B \in Clients :
        Collided(A, B) =>
            /\ clients[A].read = clients[B].content
            /\ clients[A].response = ForecastResponse(main(clients[B].content))

C16_Witness ==
    /\ Collided("a", "b")
    /\ clients["b"].step = "saved"
    /\ clients["a"].content.rows[1].items[1] = [product_id |-> 1, quantity |-> 10]
    /\ clients["a"].response = Render(main(clients["b"].content).value)
    /\ DOMAIN clients["a"].response.predictions = {2}
    /\ clients["a"].response # ForecastResponse(main(clients["a"].content))

====
